---- MODULE Spec2Model ----
(***************************************************************************)
(* Model of src/utils/NotificationService.ts: the platform-aware           *)
(* notification dispatcher (sendLocalNotification, scheduleNotification).  *)
(* Each action is one run-to-completion segment of the event loop: the     *)
(* code between a call (or a promise settling, or a timer firing) and the  *)
(* next await or return.  Every platform call made is appended to the      *)
(* per-call trace, so that orderings and counts can be stated.             *)
(***************************************************************************)
EXTENDS Integers, Sequences, FiniteSets, TLC

\* ---------------------------------------------------------------- bounds
MaxCalls == 2
MaxTime == 7500
TickMs == 2500

Calls == 1..MaxCalls
Texts == {[title |-> "Alert", body |-> "Wake up"], [title |-> "Reminder", body |-> "Drink water"]}
Seconds == {0, 5}
PermissionStates == {"default", "granted", "denied"}
NativeStatuses == {"granted", "denied", "undetermined"}

\* ---------------------------------------------------------------- values
NullModule == "null"
ExpoNotifications == "expo-notifications"
NoTrigger == [type |-> "null"]
NoRequest == [kind |-> "none", title |-> "", body |-> "", seconds |-> 0]
NoTimer == -1

MsgNotAvailable == "Notifications not available on this platform"
MsgNotGranted == "Notification permissions not granted"
MsgFailedSend == "Failed to send local notification"
MsgFailedSchedule == "Failed to schedule notification"
MsgWebUnsupported == "Browser notifications not supported"
MsgWebDenied == "Notification permission denied"
MsgWebFailed == "Failed to send web notification"

\* One entry of a call's trace: a platform call (ok = it returned without
\* throwing) or a console.warn.
Ev(api, ok, msg, title, body, trigger) ==
    [api |-> api, ok |-> ok, msg |-> msg, title |-> title, body |-> body, trigger |-> trigger]
RequireEv(ok) == Ev("require", ok, "", "", "", NoTrigger)
SetHandlerEv(ok) == Ev("setNotificationHandler", ok, "", "", "", NoTrigger)
RequestPermissionsEv(ok) == Ev("requestPermissionsAsync", ok, "", "", "", NoTrigger)
ScheduleEv(ok, request) ==
    Ev("scheduleNotificationAsync", ok, "", request.content.title, request.content.body, request.trigger)
WebRequestEv(ok) == Ev("Notification.requestPermission", ok, "", "", "", NoTrigger)
ConstructEv(ok, title, options) == Ev("Notification", ok, "", title, options.body, NoTrigger)
Warn(msg) == Ev("console.warn", TRUE, msg, "", "", NoTrigger)

\* The awaited call (the last entry) settled by rejecting.
Rejected(tr) == [tr EXCEPT ![Len(tr)].ok = FALSE]

NotificationApis == {"setNotificationHandler", "requestPermissionsAsync",
                     "scheduleNotificationAsync", "Notification.requestPermission",
                     "Notification"}

\* ----------------------------------------------------------------- state
VARIABLES
    OS,                              \* Platform.OS: "web" or "native"
    capability,                      \* what require('expo-notifications') does
    browserSupport,                  \* 'Notification' in window
    permission,                      \* Notification.permission (browser-owned)
    notificationHandlerInitialized,  \* the module-level flag
    pc,                              \* where each call is suspended
    req,                             \* each call's arguments (closure)
    trace,                           \* platform calls and warnings of each call
    escaped,                         \* an exception left the call or callback
    observed,                        \* the permission value each call decided on
    armedAt,                         \* clock when each call's timer was armed
    now                              \* host clock, ms

vars == <<OS, capability, browserSupport, permission, notificationHandlerInitialized,
          pc, req, trace, escaped, observed, armedAt, now>>

env == <<OS, capability, browserSupport>>

Init ==
    /\ OS \in {"web", "native"}
    /\ capability \in {"available", "throws", "nothing"}
    /\ browserSupport \in BOOLEAN
    /\ permission \in PermissionStates
    /\ OS = "web" => capability = "nothing"
    /\ OS = "native" => (browserSupport = FALSE /\ permission = "default")
    /\ browserSupport = FALSE => permission = "default"
    /\ notificationHandlerInitialized = FALSE
    /\ pc = [c \in Calls |-> "idle"]
    /\ req = [c \in Calls |-> NoRequest]
    /\ trace = [c \in Calls |-> <<>>]
    /\ escaped = [c \in Calls |-> FALSE]
    /\ observed = [c \in Calls |-> "none"]
    /\ armedAt = [c \in Calls |-> NoTimer]
    /\ now = 0

\* ------------------------------------------------------- pure helpers
\* getNotifications without the failure guard: the module is assumed present.
getNotifications_unguarded(os, cap) ==
    IF os = "web" THEN NullModule ELSE ExpoNotifications

\* Lines 8-20: null on web; otherwise the module, or null when require throws
\* (caught) or yields nothing.
getNotifications(os, cap) ==
    IF os = "web" THEN NullModule
    ELSE IF cap = "available" THEN ExpoNotifications
    ELSE NullModule

\* initializeNotificationHandler that forgets to set the flag.
initializeNotificationHandler_flagNeverSet(Notifications, flag, os, setThrows) ==
    IF flag \/ Notifications = NullModule \/ os = "web"
    THEN [flag |-> flag, events |-> <<>>]
    ELSE [flag |-> flag, events |-> <<SetHandlerEv(~setThrows)>>]

\* initializeNotificationHandler that sets the flag before the call, so it is
\* set even when setNotificationHandler throws.
initializeNotificationHandler_flagFirst(Notifications, flag, os, setThrows) ==
    IF flag \/ Notifications = NullModule \/ os = "web"
    THEN [flag |-> flag, events |-> <<>>]
    ELSE [flag |-> TRUE, events |-> <<SetHandlerEv(~setThrows)>>]

\* Lines 24-43: the guarded one-time registration.  Returns the new flag and
\* the platform calls made; a throwing setNotificationHandler is swallowed and
\* leaves the flag as it was.
initializeNotificationHandler(Notifications, flag, os, setThrows) ==
    IF flag \/ Notifications = NullModule \/ os = "web"
    THEN [flag |-> flag, events |-> <<>>]
    ELSE IF setThrows
         THEN [flag |-> flag, events |-> <<SetHandlerEv(FALSE)>>]
         ELSE [flag |-> TRUE, events |-> <<SetHandlerEv(TRUE)>>]

\* Lines 96 and 134: status !== 'granted'
notGranted(status) == status # "granted"

\* Line 57 testing for "not denied" instead of "granted".
webGranted_notDenied(perm) == perm # "denied"

\* Line 57: Notification.permission === 'granted'
webGranted(perm) == perm = "granted"

\* The immediate request with title and body exchanged.
immediateRequest_swapped(title, body) ==
    [content |-> [title |-> body, body |-> title], trigger |-> NoTrigger]

\* Lines 101-104: the request of sendLocalNotification
immediateRequest(title, body) ==
    [content |-> [title |-> title, body |-> body], trigger |-> NoTrigger]

\* The interval request with a repeating trigger.
intervalRequest_repeating(title, body, seconds) ==
    [content |-> [title |-> title, body |-> body],
     trigger |-> [type |-> "timeInterval", seconds |-> seconds, repeats |-> TRUE]]

\* Lines 139-148: the request of scheduleNotification
intervalRequest(title, body, seconds) ==
    [content |-> [title |-> title, body |-> body],
     trigger |-> [type |-> "timeInterval", seconds |-> seconds, repeats |-> FALSE]]

\* The delay passed to setTimeout in seconds instead of milliseconds.
timeoutMs_unscaled(seconds) == seconds

\* Line 117: seconds * 1000
timeoutMs(seconds) == seconds * 1000

\* A catch block that rethrows.
catchSendLocal_rethrows(tr) == [trace |-> tr, escaped |-> TRUE]

\* Lines 105-108: catch block of sendLocalNotification
catchSendLocal(tr) == [trace |-> Append(tr, Warn(MsgFailedSend)), escaped |-> FALSE]

\* A catch block that swallows the failure without a warning.
catchSchedule_silent(tr) == [trace |-> tr, escaped |-> FALSE]

\* Lines 149-152: catch block of scheduleNotification
catchSchedule(tr) == [trace |-> Append(tr, Warn(MsgFailedSchedule)), escaped |-> FALSE]

\* The catch block of the operation that call of this kind is running.
catchOf(kind, tr) == IF kind = "send" THEN catchSendLocal(tr) ELSE catchSchedule(tr)

\* Lines 70-72: catch block of sendWebNotification
catchWeb(tr) == [trace |-> Append(tr, Warn(MsgWebFailed)), escaped |-> FALSE]

\* Lines 57-69: the display decision of sendWebNotification, reading the
\* browser's current permission.
webDisplay(tr, perm, title, body, ctorThrows) ==
    IF webGranted(perm)
    THEN IF ctorThrows
         THEN catchWeb(Append(tr, ConstructEv(FALSE, title, [body |-> body])))
         ELSE [trace |-> Append(tr, ConstructEv(TRUE, title, [body |-> body])), escaped |-> FALSE]
    ELSE [trace |-> Append(tr, Warn(MsgWebDenied)), escaped |-> FALSE]

\* Finish call c with the outcome r of its last segment.
Finish(c, r) ==
    /\ trace' = [trace EXCEPT ![c] = r.trace]
    /\ escaped' = [escaped EXCEPT ![c] = r.escaped]
    /\ pc' = [pc EXCEPT ![c] = "done"]

\* The value of status (lines 95, 133) or of Notification.permission as read
\* on line 57.
Observe(c, value) == observed' = [observed EXCEPT ![c] = value]

\* sendWebNotification that gives up while another call's permission request
\* is outstanding (a request-in-flight lock).
WebBegin_serialized(c, title, body, reqThrows, ctorThrows) ==
    IF ~browserSupport \/ \E d \in Calls : d # c /\ pc[d] = "awaitWebPerm"
    THEN /\ Finish(c, [trace |-> Append(trace[c], Warn(MsgWebUnsupported)), escaped |-> FALSE])
         /\ UNCHANGED observed
    ELSE IF permission = "default"
         THEN /\ trace' = [trace EXCEPT ![c] = Append(@, WebRequestEv(TRUE))]
              /\ pc' = [pc EXCEPT ![c] = "awaitWebPerm"]
              /\ UNCHANGED <<escaped, observed>>
         ELSE /\ Finish(c, webDisplay(trace[c], permission, title, body, ctorThrows))
              /\ Observe(c, permission)

\* Lines 46-56 (then 57-69 when no request is needed): sendWebNotification up
\* to its first suspension.
WebBegin(c, title, body, reqThrows, ctorThrows) ==
    IF ~browserSupport
    THEN /\ Finish(c, [trace |-> Append(trace[c], Warn(MsgWebUnsupported)), escaped |-> FALSE])
         /\ UNCHANGED observed
    ELSE IF permission = "default"
         THEN /\ IF reqThrows
                 THEN Finish(c, catchWeb(Append(trace[c], WebRequestEv(FALSE))))
                 ELSE /\ trace' = [trace EXCEPT ![c] = Append(@, WebRequestEv(TRUE))]
                      /\ pc' = [pc EXCEPT ![c] = "awaitWebPerm"]
                      /\ UNCHANGED escaped
              /\ UNCHANGED observed
         ELSE /\ Finish(c, webDisplay(trace[c], permission, title, body, ctorThrows))
              /\ Observe(c, permission)

\* Lines 84-95 and 122-133: resolve the capability, register the handler
\* once, issue the permission request, for the operation of the given kind.
NativeBegin(c, kind, setThrows, reqThrows) ==
    LET Notifications == getNotifications(OS, capability)
        t0 == Append(trace[c], RequireEv(capability # "throws"))
    IN  IF Notifications = NullModule
        THEN /\ Finish(c, [trace |-> Append(t0, Warn(MsgNotAvailable)), escaped |-> FALSE])
             /\ UNCHANGED notificationHandlerInitialized
        ELSE LET init == initializeNotificationHandler(Notifications,
                             notificationHandlerInitialized, OS, setThrows)
                 t1 == t0 \o init.events
             IN  /\ notificationHandlerInitialized' = init.flag
                 /\ IF reqThrows
                    THEN Finish(c, catchOf(kind, Append(t1, RequestPermissionsEv(FALSE))))
                    ELSE /\ trace' = [trace EXCEPT ![c] = Append(t1, RequestPermissionsEv(TRUE))]
                         /\ pc' = [pc EXCEPT ![c] = "awaitPerm"]
                         /\ UNCHANGED escaped

\* Calls are numbered in the order they are made.
CanStart(c) == pc[c] = "idle" /\ \A d \in Calls : d < c => pc[d] # "idle"

\* ------------------------------------------------------------- actions
\* Lines 76-95: sendLocalNotification from the call to its first await.
sendLocalNotification(c, title, body, setThrows, reqThrows, ctorThrows) ==
    /\ CanStart(c)
    /\ req' = [req EXCEPT ![c] = [kind |-> "send", title |-> title, body |-> body, seconds |-> 0]]
    /\ IF OS = "web"
       THEN /\ WebBegin(c, title, body, reqThrows, ctorThrows)
            /\ UNCHANGED notificationHandlerInitialized
       ELSE /\ NativeBegin(c, "send", setThrows, reqThrows)
            /\ UNCHANGED observed
    /\ UNCHANGED <<env, permission, armedAt, now>>

\* Lines 112-133: scheduleNotification from the call to its return (web: the
\* timer is armed) or its first await (native).
scheduleNotification(c, title, body, seconds, setThrows, reqThrows) ==
    /\ CanStart(c)
    /\ req' = [req EXCEPT ![c] = [kind |-> "schedule", title |-> title, body |-> body, seconds |-> seconds]]
    /\ IF OS = "web"
       THEN /\ armedAt' = [armedAt EXCEPT ![c] = now]
            /\ pc' = [pc EXCEPT ![c] = "timer"]
            /\ UNCHANGED <<notificationHandlerInitialized, trace, escaped>>
       ELSE /\ NativeBegin(c, "schedule", setThrows, reqThrows)
            /\ UNCHANGED armedAt
    /\ UNCHANGED <<env, permission, observed, now>>

\* Lines 95-101: requestPermissionsAsync settles for a sendLocalNotification.
sendLocalAfterPermission(c, rejects, status, schedThrows) ==
    /\ pc[c] = "awaitPerm"
    /\ req[c].kind = "send"
    /\ IF rejects
       THEN /\ Finish(c, catchSendLocal(Rejected(trace[c])))
            /\ UNCHANGED observed
       ELSE /\ Observe(c, status)
            /\ IF notGranted(status)
               THEN Finish(c, [trace |-> Append(trace[c], Warn(MsgNotGranted)), escaped |-> FALSE])
               ELSE LET request == immediateRequest(req[c].title, req[c].body)
                    IN  IF schedThrows
                        THEN Finish(c, catchSendLocal(Append(trace[c], ScheduleEv(FALSE, request))))
                        ELSE /\ trace' = [trace EXCEPT ![c] = Append(@, ScheduleEv(TRUE, request))]
                             /\ pc' = [pc EXCEPT ![c] = "awaitSched"]
                             /\ UNCHANGED escaped
    /\ UNCHANGED <<env, permission, notificationHandlerInitialized, req, armedAt, now>>

\* Lines 133-145: requestPermissionsAsync settles for a scheduleNotification.
scheduleAfterPermission(c, rejects, status, schedThrows) ==
    /\ pc[c] = "awaitPerm"
    /\ req[c].kind = "schedule"
    /\ IF rejects
       THEN /\ Finish(c, catchSchedule(Rejected(trace[c])))
            /\ UNCHANGED observed
       ELSE /\ Observe(c, status)
            /\ IF notGranted(status)
               THEN Finish(c, [trace |-> Append(trace[c], Warn(MsgNotGranted)), escaped |-> FALSE])
               ELSE LET request == intervalRequest(req[c].title, req[c].body, req[c].seconds)
                    IN  IF schedThrows
                        THEN Finish(c, catchSchedule(Append(trace[c], ScheduleEv(FALSE, request))))
                        ELSE /\ trace' = [trace EXCEPT ![c] = Append(@, ScheduleEv(TRUE, request))]
                             /\ pc' = [pc EXCEPT ![c] = "awaitSched"]
                             /\ UNCHANGED escaped
    /\ UNCHANGED <<env, permission, notificationHandlerInitialized, req, armedAt, now>>

\* Lines 101-109 and 145-153: scheduleNotificationAsync settles.
afterSchedule(c, rejects) ==
    /\ pc[c] = "awaitSched"
    /\ IF rejects
       THEN Finish(c, catchOf(req[c].kind, Rejected(trace[c])))
       ELSE Finish(c, [trace |-> trace[c], escaped |-> FALSE])
    /\ UNCHANGED <<env, permission, notificationHandlerInitialized, req, observed, armedAt, now>>

\* Lines 54-69: Notification.requestPermission settles.  The browser records
\* the user's answer unless the permission was decided meanwhile; the
\* continuation then reads Notification.permission.
webAfterPermission(c, rejects, answer, ctorThrows) ==
    /\ pc[c] = "awaitWebPerm"
    /\ IF rejects
       THEN /\ Finish(c, catchWeb(Rejected(trace[c])))
            /\ UNCHANGED <<permission, observed>>
       ELSE /\ permission' = IF permission = "default" THEN answer ELSE permission
            /\ Observe(c, permission')
            /\ Finish(c, webDisplay(trace[c], permission', req[c].title, req[c].body, ctorThrows))
    /\ UNCHANGED <<env, notificationHandlerInitialized, req, armedAt, now>>

\* Lines 115-117: the timer armed by scheduleNotification fires, no earlier
\* than its delay, and runs sendWebNotification.
timerFires(c, reqThrows, ctorThrows) ==
    /\ pc[c] = "timer"
    /\ now >= armedAt[c] + timeoutMs(req[c].seconds)
    /\ WebBegin(c, req[c].title, req[c].body, reqThrows, ctorThrows)
    /\ UNCHANGED <<env, permission, notificationHandlerInitialized, req, armedAt, now>>

\* The host clock advances; only armed timers observe it.
Tick ==
    /\ \E c \in Calls : pc[c] = "timer"
    /\ now + TickMs <= MaxTime
    /\ now' = now + TickMs
    /\ UNCHANGED <<env, permission, notificationHandlerInitialized, pc, req, trace, escaped, observed, armedAt>>

Next ==
    \/ \E c \in Calls, t \in Texts, s \in BOOLEAN, r \in BOOLEAN, k \in BOOLEAN :
           sendLocalNotification(c, t.title, t.body, s, r, k)
    \/ \E c \in Calls, t \in Texts, seconds \in Seconds, s \in BOOLEAN, r \in BOOLEAN :
           scheduleNotification(c, t.title, t.body, seconds, s, r)
    \/ \E c \in Calls, rejects \in BOOLEAN, status \in NativeStatuses, k \in BOOLEAN :
           sendLocalAfterPermission(c, rejects, status, k)
    \/ \E c \in Calls, rejects \in BOOLEAN, status \in NativeStatuses, k \in BOOLEAN :
           scheduleAfterPermission(c, rejects, status, k)
    \/ \E c \in Calls, rejects \in BOOLEAN : afterSchedule(c, rejects)
    \/ \E c \in Calls, rejects \in BOOLEAN, answer \in PermissionStates, k \in BOOLEAN :
           webAfterPermission(c, rejects, answer, k)
    \/ \E c \in Calls, r \in BOOLEAN, k \in BOOLEAN : timerFires(c, r, k)
    \/ Tick

Spec == Init /\ [][Next]_vars

\* ------------------------------------------------------- trace queries
Has(tr, api) == \E i \in DOMAIN tr : tr[i].api = api
CountApi(tr, api) == Cardinality({i \in DOMAIN tr : tr[i].api = api})
EndsWithWarning(tr) == Len(tr) > 0 /\ tr[Len(tr)].api = "console.warn"
Started(c) == pc[c] # "idle"

\* All setNotificationHandler calls made so far, and those that returned.
HandlerCallSet == UNION {{<<c, i>> : i \in {j \in DOMAIN trace[c] :
                              trace[c][j].api = "setNotificationHandler"}} : c \in Calls}
HandlerCalls == Cardinality(HandlerCallSet)
SuccessfulHandlerCalls == Cardinality({p \in HandlerCallSet : trace[p[1]][p[2]].ok})

\* Position of each step in the native sequence.
Rank(api) ==
    CASE api = "require" -> 1
      [] api = "setNotificationHandler" -> 2
      [] api = "requestPermissionsAsync" -> 3
      [] api = "scheduleNotificationAsync" -> 4
      [] OTHER -> 5

\* ----------------------------------------------------------------- claims
\* C1: on every platform and for every choice of throwing platform calls, no
\* call to sendLocalNotification or scheduleNotification and no web timer
\* callback lets an exception escape.
C1_NoEscape == \A c \in Calls : ~escaped[c]

\* C1 witness: a call has finished after one of its platform calls failed.
C1_Witness ==
    \E c \in Calls : pc[c] = "done" /\ ~escaped[c] /\ \E i \in DOMAIN trace[c] : ~trace[c][i].ok

\* C2 as stated: at most one setNotificationHandler call is ever made, also
\* when a configuration call throws.
C2_Original == HandlerCalls <= 1

\* C2 amended: at most one setNotificationHandler call returns without
\* throwing; a call that throws leaves the flag unset and the next native call
\* tries again.
C2_Amended ==
    /\ SuccessfulHandlerCalls <= 1
    /\ notificationHandlerInitialized <=> SuccessfulHandlerCalls = 1

\* C2 witness: two calls were made, the registration threw once and then
\* succeeded.
C2_Witness ==
    /\ \A c \in Calls : Started(c)
    /\ HandlerCalls >= 2
    /\ SuccessfulHandlerCalls = 1

\* C3 as stated: every failing platform call, setNotificationHandler included,
\* is followed by a warning.
C3_Original ==
    \A c \in Calls : \A i \in DOMAIN trace[c] :
        ~trace[c][i].ok => (i < Len(trace[c]) /\ trace[c][i + 1].api = "console.warn")

\* C3 amended: an unavailable capability, a permission that is not granted and
\* a failing platform call other than setNotificationHandler each log a
\* warning and end the operation with no further notification-API call; a
\* throwing setNotificationHandler is swallowed without a warning and the call
\* goes on to requestPermissionsAsync.
C3_Amended ==
    \A c \in Calls :
        LET tr == trace[c] IN
        /\ \A i \in DOMAIN tr :
              /\ (~tr[i].ok /\ tr[i].api # "setNotificationHandler")
                    => (i < Len(tr) /\ tr[i + 1].api = "console.warn")
              /\ (~tr[i].ok /\ tr[i].api = "setNotificationHandler")
                    => (i < Len(tr) /\ tr[i + 1].api = "requestPermissionsAsync")
              /\ tr[i].api = "console.warn" => (i = Len(tr) /\ pc[c] = "done")
        /\ (OS = "native" /\ capability # "available" /\ Started(c)) => EndsWithWarning(tr)
        /\ (OS = "web" /\ ~browserSupport /\ pc[c] \notin {"idle", "timer"}) => EndsWithWarning(tr)
        /\ observed[c] \notin {"none", "granted"} => EndsWithWarning(tr)
        /\ ~escaped[c]

\* C3 witness: setNotificationHandler threw in a call that then finished
\* without any warning.
C3_Witness ==
    \E c \in Calls :
        /\ pc[c] = "done"
        /\ \E i \in DOMAIN trace[c] : trace[c][i].api = "setNotificationHandler" /\ ~trace[c][i].ok
        /\ ~Has(trace[c], "console.warn")

\* C4: a call that finds the permission not granted (web: Notification.permission
\* after the optional request; native: the status of requestPermissionsAsync)
\* never invokes the Notification constructor or scheduleNotificationAsync and
\* logs a warning.
C4_NotGrantedNoDisplay ==
    \A c \in Calls :
        observed[c] \notin {"none", "granted"} =>
            /\ ~Has(trace[c], "Notification")
            /\ ~Has(trace[c], "scheduleNotificationAsync")
            /\ pc[c] = "done"
            /\ trace[c][Len(trace[c])] = Warn(IF OS = "web" THEN MsgWebDenied ELSE MsgNotGranted)

\* C4 witness: a scheduled web notification whose permission request resolved
\* with the permission still undetermined.
C4_Witness ==
    \E c \in Calls :
        /\ OS = "web" /\ req[c].kind = "schedule"
        /\ observed[c] = "default"
        /\ Has(trace[c], "Notification.requestPermission")

\* C5: on native with permission granted, sendLocalNotification issues exactly
\* one scheduleNotificationAsync request, with no trigger and with the passed
\* title and body.
C5_OneImmediateRequest ==
    \A c \in Calls :
        (OS = "native" /\ req[c].kind = "send" /\ observed[c] = "granted") =>
            /\ CountApi(trace[c], "scheduleNotificationAsync") = 1
            /\ \A i \in DOMAIN trace[c] :
                  trace[c][i].api = "scheduleNotificationAsync" =>
                      /\ trace[c][i].trigger = NoTrigger
                      /\ trace[c][i].title = req[c].title
                      /\ trace[c][i].body = req[c].body

\* C5 witness: a granted send made after the handler was already registered.
C5_Witness ==
    \E c \in Calls :
        /\ OS = "native" /\ req[c].kind = "send" /\ observed[c] = "granted"
        /\ pc[c] = "done"
        /\ ~Has(trace[c], "setNotificationHandler")
        /\ \E i \in DOMAIN trace[c] : trace[c][i].api = "scheduleNotificationAsync" /\ trace[c][i].ok

\* C6: on web, scheduleNotification only arms a timer; nothing of the display
\* logic runs while the timer is pending, and whatever runs does so at least
\* seconds * 1000 ms after the call.
C6_WebDelay ==
    \A c \in Calls :
        (OS = "web" /\ req[c].kind = "schedule") =>
            /\ armedAt[c] # NoTimer
            /\ pc[c] = "timer" => (trace[c] = <<>> /\ observed[c] = "none")
            /\ (trace[c] # <<>> \/ pc[c] # "timer") => now - armedAt[c] >= 1000 * req[c].seconds

\* C6 witness: a notification scheduled with seconds = 5 has been displayed.
C6_Witness ==
    \E c \in Calls :
        /\ OS = "web" /\ req[c].kind = "schedule" /\ req[c].seconds = 5
        /\ \E i \in DOMAIN trace[c] : trace[c][i].api = "Notification" /\ trace[c][i].ok

\* C7: when the native capability cannot be resolved, every call logs the
\* warning, makes no notification-API call and leaves the flag unset.
C7_UnresolvableCapability ==
    \A c \in Calls :
        (OS = "native" /\ capability # "available" /\ Started(c)) =>
            /\ pc[c] = "done"
            /\ \A i \in DOMAIN trace[c] : trace[c][i].api \notin NotificationApis
            /\ CountApi(trace[c], "console.warn") = 1
            /\ trace[c][Len(trace[c])] = Warn(MsgNotAvailable)
            /\ ~notificationHandlerInitialized

\* C7 witness: both kinds of call were made where require throws.
C7_Witness ==
    /\ OS = "native" /\ capability = "throws"
    /\ \E c \in Calls : pc[c] = "done" /\ req[c].kind = "send"
    /\ \E c \in Calls : pc[c] = "done" /\ req[c].kind = "schedule"

\* C8: on native, scheduleNotification resolves the capability, registers the
\* handler, requests permission and issues the schedule request in that order;
\* the schedule request is issued once, only after this call's permission
\* request returned granted, with a non-repeating time-interval trigger of the
\* passed seconds and the passed title and body.
C8_NativeScheduleOrder ==
    \A c \in Calls :
        (OS = "native" /\ req[c].kind = "schedule") =>
            LET tr == trace[c] IN
            /\ tr[1].api = "require"
            /\ \A i \in DOMAIN tr : i > 1 => Rank(tr[i - 1].api) < Rank(tr[i].api)
            /\ observed[c] = "granted" <=> Has(tr, "scheduleNotificationAsync")
            /\ \A i \in DOMAIN tr :
                  tr[i].api = "scheduleNotificationAsync" =>
                      /\ i > 1 /\ tr[i - 1] = RequestPermissionsEv(TRUE)
                      /\ tr[i].trigger = [type |-> "timeInterval", seconds |-> req[c].seconds,
                                          repeats |-> FALSE]
                      /\ tr[i].title = req[c].title
                      /\ tr[i].body = req[c].body

\* C8 witness: a native schedule with seconds = 5 went through registration,
\* permission and the schedule request.
C8_Witness ==
    \E c \in Calls :
        /\ OS = "native" /\ req[c].kind = "schedule" /\ req[c].seconds = 5
        /\ pc[c] = "done"
        /\ Len(trace[c]) = 4
        /\ trace[c][4].api = "scheduleNotificationAsync" /\ trace[c][4].ok

\* C9: the flag never goes back to false, no setNotificationHandler call is
\* made while it is true, and it becomes true only in a step in which
\* setNotificationHandler returned without throwing.
C9_FlagMonotone ==
    [][/\ notificationHandlerInitialized => notificationHandlerInitialized'
       /\ notificationHandlerInitialized => HandlerCalls' = HandlerCalls
       /\ (~notificationHandlerInitialized /\ notificationHandlerInitialized')
             => SuccessfulHandlerCalls' = SuccessfulHandlerCalls + 1]_vars

\* C9 witness: a call made after the handler was registered has finished
\* without registering again.
C9_Witness ==
    /\ notificationHandlerInitialized
    /\ \E c \in Calls :
          /\ pc[c] = "done"
          /\ Has(trace[c], "requestPermissionsAsync")
          /\ ~Has(trace[c], "setNotificationHandler")

\* C10: no call waits for another: a new call can issue its own permission
\* request whatever the others are doing (native always, web while the
\* permission reads undetermined), a suspended call's request can settle
\* whatever the others are doing, and each call displays exactly when the
\* value it observed after its own request is granted.
C10_NoMutualExclusion ==
    \A c \in Calls :
        /\ (CanStart(c) /\ OS = "native" /\ capability = "available") =>
              ENABLED (sendLocalNotification(c, "Alert", "Wake up", FALSE, FALSE, FALSE)
                          /\ pc'[c] = "awaitPerm")
        /\ (CanStart(c) /\ OS = "web" /\ browserSupport /\ permission = "default") =>
              ENABLED (sendLocalNotification(c, "Alert", "Wake up", FALSE, FALSE, FALSE)
                          /\ pc'[c] = "awaitWebPerm")
        /\ pc[c] = "awaitWebPerm" =>
              \A answer \in PermissionStates :
                  ENABLED (webAfterPermission(c, FALSE, answer, FALSE) /\ observed'[c] = permission')
        /\ pc[c] = "awaitPerm" =>
              \A status \in NativeStatuses :
                  ENABLED ((sendLocalAfterPermission(c, FALSE, status, FALSE)
                               \/ scheduleAfterPermission(c, FALSE, status, FALSE))
                           /\ observed'[c] = status)
        /\ (observed[c] # "none") =>
              (observed[c] = "granted" <=>
                  (Has(trace[c], "Notification") \/ Has(trace[c], "scheduleNotificationAsync")))

\* C10 witness: two calls each have their own permission request outstanding.
C10_Witness ==
    \E c, d \in Calls :
        /\ c # d
        /\ pc[c] \in {"awaitPerm", "awaitWebPerm"}
        /\ pc[d] = pc[c]
        /\ trace[c][Len(trace[c])].api \in {"requestPermissionsAsync", "Notification.requestPermission"}
        /\ trace[d][Len(trace[d])].api = trace[c][Len(trace[c])].api

====
